---- MODULE Spec2Model ----
(***************************************************************************)
(* A model of the glossary pipeline of main.py: PDF text extraction,       *)
(* cleaning, chunking, per-chunk keyword extraction (an external           *)
(* collaborator), filtering, de-duplication, essential-term injection,     *)
(* sorting, truncation and the write of the output file.                   *)
(*                                                                         *)
(* Strings are sequences of one-character strings.  Scores are integers    *)
(* in thousandths (0.95 is 950); the score universe avoids values whose    *)
(* thousandths digit is 5, so that the two-decimal formatting of the       *)
(* written line is decided by the decimal value alone.                     *)
(***************************************************************************)
EXTENDS Integers, Sequences, FiniteSets, TLC

VARIABLES
    pc,             \* position of the script (main.py:68-150) or "chunker"
    dir_exists,     \* os.path.exists(PDF_DIR)
    listing,        \* os.listdir(PDF_DIR): a sequence of files
    prior_file,     \* the output file as it was before the run
    out_dir,        \* whether OUTPUT_DIR exists
    out_file,       \* the output file: NoFile or its sequence of lines
    file_idx,       \* files of the listing already visited
    texts,          \* extract_texts_from_pdfs: texts / all_texts
    console,        \* what the run has printed
    combined_text,  \* main.py:82 (the chunker's text argument)
    chunk_size,     \* the chunker's chunk_size argument
    text_chunks,    \* main.py:93 (the chunker's output)
    chunk_idx,      \* chunks already attempted
    calls,          \* the calls made to kw_model.extract_keywords and their outcomes
    all_keywords,   \* main.py:92
    unique_keywords_dict, \* main.py:116, in insertion order
    final_terms     \* main.py:124/128: sorted_keywords and final_terms are one list

vars == <<pc, dir_exists, listing, prior_file, out_dir, out_file, file_idx, texts,
          console, combined_text, chunk_size, text_chunks, chunk_idx, calls,
          all_keywords, unique_keywords_dict, final_terms>>

-----------------------------------------------------------------------------
(* Bounds of the model.                                                    *)

\* the chunker alone: the longest text and the largest chunk size
MaxTextLen == 4
MaxChunkSize == 5

\* the longest directory listing
MaxFiles == 2

\* The script cuts its text into chunks of 50000 characters (main.py:93).  The
\* model's texts are a few characters long, and the chunk size of its script is
\* scaled down with them so that a run has one chunk or several.
PipelineChunkSize == 6

(* Program constants.  ESSENTIAL_SCORE is 0.95 in thousandths.              *)

CHUNK_TOP_N == 30
OUTPUT_TOP_N == 50
ESSENTIAL_SCORE == 950
LONG_DOC_PAGES == 10
FRONT_MATTER_PAGES == 5

-----------------------------------------------------------------------------
(* Characters and strings.                                                 *)

Digits == <<"0", "1", "2", "3", "4", "5", "6", "7", "8", "9">>

IsDigit(c) == \E k \in 1..10 : Digits[k] = c

IsSpace(c) == c \in {" ", "\n", "\t"}

UpperToLower ==
    [c \in {"A","B","C","D","E","F","G","H","I","J","K","L","M",
            "N","O","P","Q","R","S","T","U","V","W","X","Y","Z"} |->
        CASE c = "A" -> "a" [] c = "B" -> "b" [] c = "C" -> "c" [] c = "D" -> "d"
          [] c = "E" -> "e" [] c = "F" -> "f" [] c = "G" -> "g" [] c = "H" -> "h"
          [] c = "I" -> "i" [] c = "J" -> "j" [] c = "K" -> "k" [] c = "L" -> "l"
          [] c = "M" -> "m" [] c = "N" -> "n" [] c = "O" -> "o" [] c = "P" -> "p"
          [] c = "Q" -> "q" [] c = "R" -> "r" [] c = "S" -> "s" [] c = "T" -> "t"
          [] c = "U" -> "u" [] c = "V" -> "v" [] c = "W" -> "w" [] c = "X" -> "x"
          [] c = "Y" -> "y" [] c = "Z" -> "z"]

LowerChar(c) == IF c \in DOMAIN UpperToLower THEN UpperToLower[c] ELSE c

\* str.lower()
lower(s) == [i \in 1..Len(s) |-> LowerChar(s[i])]

\* s[from:to] with Python's 0-based, end-exclusive, clamped slice bounds
Slice(s, from, to) ==
    LET hi == IF to > Len(s) THEN Len(s) ELSE to
    IN  IF from >= hi THEN <<>> ELSE SubSeq(s, from + 1, hi)

\* needle occurs in s starting at 1-based position i
OccursAt(s, needle, i) ==
    /\ i >= 1
    /\ i + Len(needle) - 1 <= Len(s)
    /\ \A k \in 1..Len(needle) : s[i + k - 1] = needle[k]

\* needle in s
Contains(s, needle) == \E i \in 1..(Len(s) + 1) : OccursAt(s, needle, i)

\* s.endswith(suffix)
EndsWith(s, suffix) ==
    /\ Len(suffix) <= Len(s)
    /\ OccursAt(s, suffix, Len(s) - Len(suffix) + 1)

RECURSIVE Flatten(_)
Flatten(ss) == IF ss = <<>> THEN <<>> ELSE Head(ss) \o Flatten(Tail(ss))

\* sep.join(ss)
RECURSIVE Join(_, _)
Join(sep, ss) ==
    IF ss = <<>> THEN <<>>
    ELSE IF Len(ss) = 1 THEN ss[1]
    ELSE ss[1] \o sep \o Join(sep, Tail(ss))

-----------------------------------------------------------------------------
(* split_text_into_chunks (main.py:62-65)                                  *)

\* range(0, n, step) as a sequence
RangeStep(n, step) ==
    LET cnt == IF n <= 0 THEN 0 ELSE (n + step - 1) \div step
    IN  [k \in 1..cnt |-> (k - 1) * step]

split_text_into_chunks_dropTail(text, size) ==
    LET starts == RangeStep(Len(text) - size + 1, size)
    IN  [k \in 1..Len(starts) |-> Slice(text, starts[k], starts[k] + size)]

split_text_into_chunks(text, size) ==
    LET starts == RangeStep(Len(text), size)
    IN  [k \in 1..Len(starts) |-> Slice(text, starts[k], starts[k] + size)]

-----------------------------------------------------------------------------
(* clean_text (main.py:16-24)                                              *)

\* length of the run of digits of s that starts at position i
RECURSIVE DigitRun(_, _)
DigitRun(s, i) ==
    IF i <= Len(s) /\ IsDigit(s[i]) THEN 1 + DigitRun(s, i + 1) ELSE 0

\* position of the first "\n" of s at or after i, 0 when there is none
RECURSIVE FirstNewline(_, _)
FirstNewline(s, i) ==
    IF i > Len(s) THEN 0
    ELSE IF s[i] = "\n" THEN i
    ELSE FirstNewline(s, i + 1)

\* a literal of the pattern at position i, under re.IGNORECASE
MatchWord(s, i, w) ==
    /\ i + Len(w) - 1 <= Len(s)
    /\ \A k \in 1..Len(w) : LowerChar(s[i + k - 1]) = w[k]

\* '^' under re.MULTILINE
AtLineStart(s, i) == i = 1 \/ s[i - 1] = "\n"

\* length of the match of (Page\s\d+|Chapter\s\d+.*?)\n at position i, 0 for none
HeaderMatchLen(s, i) ==
    LET page    == <<"p", "a", "g", "e">>
        chapter == <<"c", "h", "a", "p", "t", "e", "r">>
        pd      == DigitRun(s, i + 5)
        cd      == DigitRun(s, i + 8)
        nl      == FirstNewline(s, i + 9)
    IN  IF /\ MatchWord(s, i, page)
           /\ i + 4 <= Len(s) /\ IsSpace(s[i + 4])
           /\ pd >= 1
           /\ i + 5 + pd <= Len(s) /\ s[i + 5 + pd] = "\n"
        THEN 6 + pd
        ELSE IF /\ MatchWord(s, i, chapter)
                /\ i + 7 <= Len(s) /\ IsSpace(s[i + 7])
                /\ cd >= 1
                /\ nl # 0
        THEN nl - i + 1
        ELSE 0

\* re.sub(r'^(Page\s\d+|Chapter\s\d+.*?)\n', '', text, flags=MULTILINE|IGNORECASE)
RECURSIVE RemoveHeaders(_, _)
RemoveHeaders(s, i) ==
    IF i > Len(s) THEN <<>>
    ELSE LET m == IF AtLineStart(s, i) THEN HeaderMatchLen(s, i) ELSE 0
         IN  IF m > 0 THEN RemoveHeaders(s, i + m)
             ELSE <<s[i]>> \o RemoveHeaders(s, i + 1)

\* re.sub(r'\[\d+\]', '', text)
RECURSIVE RemoveCitations(_, _)
RemoveCitations(s, i) ==
    IF i > Len(s) THEN <<>>
    ELSE LET d == DigitRun(s, i + 1)
         IN  IF s[i] = "[" /\ d >= 1 /\ i + 1 + d <= Len(s) /\ s[i + 1 + d] = "]"
             THEN RemoveCitations(s, i + d + 2)
             ELSE <<s[i]>> \o RemoveCitations(s, i + 1)

\* re.sub(r'\s+', ' ', text)
RECURSIVE CollapseSpaces(_, _)
CollapseSpaces(s, i) ==
    IF i > Len(s) THEN <<>>
    ELSE IF IsSpace(s[i])
         THEN IF i > 1 /\ IsSpace(s[i - 1])
              THEN CollapseSpaces(s, i + 1)
              ELSE <<" ">> \o CollapseSpaces(s, i + 1)
         ELSE <<s[i]>> \o CollapseSpaces(s, i + 1)

\* str.strip()
Strip(s) ==
    LET kept == {i \in DOMAIN s : ~IsSpace(s[i])}
    IN  IF kept = {} THEN <<>>
        ELSE SubSeq(s, CHOOSE i \in kept : \A j \in kept : i <= j,
                       CHOOSE i \in kept : \A j \in kept : j <= i)

clean_text(text) ==
    CHOOSE r \in
        {Strip(t3) : t3 \in
            {CollapseSpaces(t2, 1) : t2 \in
                {RemoveCitations(t1, 1) : t1 \in
                    {RemoveHeaders(t0, 1) : t0 \in {text}}}}} : TRUE

-----------------------------------------------------------------------------
(* The input directory.  A file is a name and the raw text of its pages.   *)

NotesTxt ==
    [name  |-> <<"n", "o", "t", "e", "s", ".", "t", "x", "t">>,
     pages |-> << <<"x">> >>]

\* one page, of empty text; the extension is in upper case
BlankPdf ==
    [name  |-> <<"B", "l", "a", "n", "k", ".", "P", "D", "F">>,
     pages |-> << <<>> >>]

\* eleven pages: five of front matter, one of text, five of empty text
LongPdf ==
    [name  |-> <<"l", "o", "n", "g", ".", "p", "d", "f">>,
     pages |-> [k \in 1..11 |->
                  IF k <= 5 THEN <<"z", "z">>
                  ELSE IF k = 6
                       THEN <<"P", "a", "g", "e", " ", "1", "\n", "a", "b", " ", "[", "1", "]">>
                       ELSE <<>>]]

FileUniverse == {NotesTxt, BlankPdf, LongPdf}

\* the directory listings: sequences of distinct files
Listings ==
    {l \in UNION {[1..k -> FileUniverse] : k \in 0..MaxFiles} :
        \A i, j \in DOMAIN l : i # j => l[i].name # l[j].name}

\* The output file: whether it exists, and its lines.
NoFile == [exists |-> FALSE, lines |-> <<>>]
OldFile == [exists |-> TRUE,
            lines  |-> <<[kind |-> "old", term |-> <<"o", "l", "d">>, conf |-> 0]>>]

-----------------------------------------------------------------------------
(* extract_texts_from_pdfs (main.py:26-60)                                 *)

\* filename.lower().endswith(".pdf"), main.py:35
IsPdfName(name) == EndsWith(lower(name), <<".", "p", "d", "f">>)

\* main.py:42
StartPage(doc) == IF Len(doc.pages) > LONG_DOC_PAGES THEN FRONT_MATTER_PAGES ELSE 0

\* full_text after the pages start_page .. stop-1 (0-based), main.py:40-47
RECURSIVE FullTextUpTo(_, _, _)
FullTextUpTo(doc, page_num, stop) ==
    IF page_num >= stop THEN <<>>
    ELSE clean_text(doc.pages[page_num + 1]) \o <<" ">>
         \o FullTextUpTo(doc, page_num + 1, stop)

FullText(doc) == FullTextUpTo(doc, StartPage(doc), Len(doc.pages))

\* Where a document can fail: -1 is fitz.open, k >= 0 is page k (load_page/get_text)
FailurePoints(doc) == {-1} \cup (StartPage(doc)..(Len(doc.pages) - 1))

\* texts after a document parsed to its end, main.py:53
TextsAfterSuccess(ts, doc) == Append(ts, FullText(doc))

TextsAfterFailure_keepPartial(ts, doc, failAt) ==
    IF failAt < 0 THEN ts ELSE Append(ts, FullTextUpTo(doc, StartPage(doc), failAt))

\* texts after a document failed at failAt: the except clause of main.py:56-57
\* is reached before texts.append, so the partial full_text is dropped
TextsAfterFailure(ts, doc, failAt) == ts

-----------------------------------------------------------------------------
(* kw_model.extract_keywords (main.py:98-105): the external collaborator.  *)
(* It returns at most top_n (phrase, score) pairs, or raises.              *)

\* the phrase "t NN"
Gen(k) == <<"t", " ", Digits[(k \div 10) + 1], Digits[(k % 10) + 1]>>

CircuitBreakerLower == <<"c", "i", "r", "c", "u", "i", "t", " ", "b", "r", "e", "a", "k", "e", "r">>
CircuitBreakerTitle == <<"C", "i", "r", "c", "u", "i", "t", " ", "B", "r", "e", "a", "k", "e", "r">>
OhmsLawLower == <<"o", "h", "m", "'", "s", " ", "l", "a", "w">>
LawOfOhm == <<"l", "a", "w", " ", "o", "f", " ", "o", "h", "m">>
InputSignal == <<"i", "n", "p", "u", "t", " ", "s", "i", "g", "n", "a", "l">>
OfCourse == <<"o", "f", " ", "c", "o", "u", "r", "s", "e">>
PowerFor == <<"p", "o", "w", "e", "r", " ", "f", "o", "r">>
TheGridLower == <<"t", "h", "e", " ", "g", "r", "i", "d">>
TheGridTitle == <<"T", "h", "e", " ", "g", "r", "i", "d">>
PlugIn == <<"p", "l", "u", "g", " ", "i", "n">>

HighBatchA == [i \in 1..CHUNK_TOP_N |-> <<Gen(i), 960 + (i % 3)>>]
HighBatchB == [i \in 1..CHUNK_TOP_N |-> <<Gen(CHUNK_TOP_N + i), 960 + 10 * (i % 2)>>]
MixedBatchC ==
    << <<CircuitBreakerLower, 400>>, <<CircuitBreakerTitle, 700>>, <<LawOfOhm, 990>>,
       <<InputSignal, 500>>, <<CircuitBreakerLower, 600>>, <<OfCourse, 300>>,
       <<Gen(1), 500>>, <<PlugIn, 980>> >>
MixedBatchD ==
    << <<InputSignal, 800>>, <<OhmsLawLower, 950>>, <<PowerFor, 100>>,
       <<Gen(2), 950>>, <<TheGridTitle, 500>>, <<TheGridLower, 600>>,
       <<Gen(3), 990>>, <<Gen(1), 990>>, <<InputSignal, 800>> >>

Batches == {HighBatchA, HighBatchB, MixedBatchC, MixedBatchD, <<>>}

\* what one call does: it returns keywords, or it raises
ExtractorOutcomes ==
    {[raised |-> FALSE, keywords |-> b] : b \in Batches}
        \cup {[raised |-> TRUE, keywords |-> <<>>]}

\* all_keywords after one chunk's call raised: main.py:109-110 only prints
KeywordsAfterFailure(kws) == kws

\* all_keywords after one chunk's call returned, main.py:106-107
KeywordsAfterSuccess(kws, chunk_keywords) ==
    IF chunk_keywords # <<>> THEN kws \o chunk_keywords ELSE kws

-----------------------------------------------------------------------------
(* Step 5: filtering and de-duplication (main.py:116-124)                  *)

\* main.py:119
BAD_WORDS ==
    << <<"o", "f">>, <<"t", "h", "e">>, <<"a", "n", "d">>, <<"i", "s">>,
       <<"f", "o", "r">>, <<"i", "n">> >>

HasBadWord_substring(term) ==
    \E k \in DOMAIN BAD_WORDS : Contains(term, BAD_WORDS[k])

\* any(f" {bad_word} " in f" {term} " for bad_word in [...]), main.py:119
HasBadWord(term) ==
    \E k \in DOMAIN BAD_WORDS :
        Contains(<<" ">> \o term \o <<" ">>, <<" ">> \o BAD_WORDS[k] \o <<" ">>)

\* A dict is the sequence of its (key, value) items in insertion order.
DictIndex(d, key) ==
    IF \E i \in DOMAIN d : d[i][1] = key
    THEN CHOOSE i \in DOMAIN d : d[i][1] = key
    ELSE 0

\* d[key] = value: a new key goes last, an old key keeps its place
DictSet(d, key, value) ==
    LET i == DictIndex(d, key)
    IN  IF i = 0 THEN Append(d, <<key, value>>)
        ELSE [d EXCEPT ![i] = <<key, value>>]

AddKeyword_lastWins(d, term, score) ==
    IF ~HasBadWord(term) THEN DictSet(d, term, score) ELSE d

\* one iteration of the loop of main.py:117-121
AddKeyword(d, term, score) ==
    IF ~HasBadWord(term)
    THEN IF DictIndex(d, term) = 0 \/ score > d[DictIndex(d, term)][2]
         THEN DictSet(d, term, score)
         ELSE d
    ELSE d

\* the loop of main.py:117-121 over kws[lo..hi], in order, starting from d:
\* the first half of the range, then the second half from its result
RECURSIVE DeduplicateRange(_, _, _, _)
DeduplicateRange(d, kws, lo, hi) ==
    IF lo > hi THEN d
    ELSE IF lo = hi THEN AddKeyword(d, kws[lo][1], kws[lo][2])
    ELSE CHOOSE r \in
             {DeduplicateRange(st[1], kws, st[2] + 1, st[3]) : st \in
                 {<<DeduplicateRange(d, kws, lo, (lo + hi) \div 2),
                    (lo + hi) \div 2, hi>>}} : TRUE

Deduplicate(kws) == DeduplicateRange(<<>>, kws, 1, Len(kws))

\* x put into a list sorted by score descending, after the items of equal score
InsertDescending(sorted, x) ==
    LET before == {i \in DOMAIN sorted : sorted[i][2] >= x[2]}
        n == Cardinality(before)
    IN  SubSeq(sorted, 1, n) \o <<x>> \o SubSeq(sorted, n + 1, Len(sorted))

\* items[lo..hi] put one after the other, in order, into sorted
RECURSIVE InsertRange(_, _, _, _)
InsertRange(sorted, items, lo, hi) ==
    IF lo > hi THEN sorted
    ELSE IF lo = hi THEN InsertDescending(sorted, items[lo])
    ELSE CHOOSE r \in
             {InsertRange(st[1], items, st[2] + 1, st[3]) : st \in
                 {<<InsertRange(sorted, items, lo, (lo + hi) \div 2),
                    (lo + hi) \div 2, hi>>}} : TRUE

\* a sort by score descending that reverses the items of equal score
SortByScoreDescending_tiesReversed(items) ==
    LET rev == [i \in 1..Len(items) |-> items[Len(items) + 1 - i]]
    IN  InsertRange(<<>>, rev, 1, Len(rev))

\* sorted(items, key=score, reverse=True) and list.sort(key=score, reverse=True):
\* a stable sort, items of equal score keep their order (main.py:124, 137)
SortByScoreDescending(items) == InsertRange(<<>>, items, 1, Len(items))

-----------------------------------------------------------------------------
(* Step 6: essential terms (main.py:128-134)                               *)

\* main.py:129
essential_terms ==
    << <<"O", "h", "m", "'", "s", " ", "L", "a", "w">>,
       <<"K", "i", "r", "c", "h", "h", "o", "f", "f", "'", "s", " ", "l", "a", "w", "s">>,
       <<"T", "h", "e", "v", "e", "n", "i", "n", "'", "s", " ", "t", "h", "e", "o", "r", "e", "m">>,
       <<"N", "o", "r", "t", "o", "n", "'", "s", " ", "t", "h", "e", "o", "r", "e", "m">>,
       <<"c", "i", "r", "c", "u", "i", "t", " ", "b", "r", "e", "a", "k", "e", "r">>,
       <<"v", "o", "l", "t", "a", "g", "e", " ", "r", "e", "g", "u", "l", "a", "t", "o", "r">> >>

\* main.py:131
ExistingTermsLower(terms) == {lower(terms[i][1]) : i \in DOMAIN terms}

InjectFrom_always(terms, existing, k) ==
    terms \o [i \in 1..Len(essential_terms) |-> <<essential_terms[i], ESSENTIAL_SCORE>>]

\* the loop of main.py:132-134 over essential_terms[k..]
RECURSIVE InjectFrom(_, _, _)
InjectFrom(terms, existing, k) ==
    IF k > Len(essential_terms) THEN terms
    ELSE IF lower(essential_terms[k]) \notin existing
         THEN InjectFrom(Append(terms, <<essential_terms[k], ESSENTIAL_SCORE>>),
                         existing, k + 1)
         ELSE InjectFrom(terms, existing, k + 1)

InjectEssentialTerms(terms) == InjectFrom(terms, ExistingTermsLower(terms), 1)

-----------------------------------------------------------------------------
(* Step 7: the output file (main.py:141-146)                               *)

\* f"{score:.2f}" in hundredths, for a score in thousandths
Format2f(score) == (score + 5) \div 10

TermLine(item) == [kind |-> "term", term |-> item[1], conf |-> Format2f(item[2])]

\* main.py:142-143: two comment lines and an empty line
HeaderLines ==
    <<[kind |-> "header", term |-> <<"#", "1">>, conf |-> 0],
      [kind |-> "header", term |-> <<"#", "2">>, conf |-> 0],
      [kind |-> "blank", term |-> <<>>, conf |-> 0]>>

TopTerms_all(terms) == terms

\* final_terms[:50], main.py:145
TopTerms(terms) == Slice(terms, 0, OUTPUT_TOP_N)

\* open(OUTPUT_FILE_PATH, 'w') and the writes of main.py:141-146
FileContent(terms) ==
    [exists |-> TRUE,
     lines  |-> HeaderLines
                \o [i \in 1..Len(TopTerms(terms)) |-> TermLine(TopTerms(terms)[i])]]

-----------------------------------------------------------------------------
(* The script (main.py:68-150)                                             *)

Init ==
    /\ pc = "start"
    /\ dir_exists \in BOOLEAN
    /\ listing \in Listings
    /\ (~dir_exists => listing = <<>>)
    /\ prior_file \in {NoFile, OldFile}
    /\ out_dir = prior_file.exists
    /\ out_file = prior_file
    /\ file_idx = 0
    /\ texts = <<>>
    /\ console = <<>>
    /\ combined_text = <<>>
    /\ chunk_size = PipelineChunkSize
    /\ text_chunks = <<>>
    /\ chunk_idx = 0
    /\ calls = <<>>
    /\ all_keywords = <<>>
    /\ unique_keywords_dict = <<>>
    /\ final_terms = <<>>

\* main.py:69-74: the banner and os.makedirs(OUTPUT_DIR, exist_ok=True)
MakeOutputDir ==
    /\ pc = "start"
    /\ out_dir' = TRUE
    /\ console' = Append(console, <<"banner">>)
    /\ pc' = "extract_begin"
    /\ UNCHANGED <<dir_exists, listing, prior_file, out_file, file_idx, texts,
                   combined_text, chunk_size, text_chunks, chunk_idx, calls,
                   all_keywords, unique_keywords_dict, final_terms>>

\* main.py:28-32: the entry of extract_texts_from_pdfs
ExtractBegin ==
    /\ pc = "extract_begin"
    /\ texts' = <<>>
    /\ IF ~dir_exists
       THEN /\ console' = console \o << <<"processing_dir">>, <<"dir_missing">> >>
            /\ pc' = "check"
       ELSE /\ console' = Append(console, <<"processing_dir">>)
            /\ pc' = "extract"
    /\ UNCHANGED <<dir_exists, listing, prior_file, out_dir, out_file, file_idx,
                   combined_text, chunk_size, text_chunks, chunk_idx, calls,
                   all_keywords, unique_keywords_dict, final_terms>>

\* main.py:34-57: one iteration of the loop over os.listdir(pdf_dir)
ExtractFile ==
    /\ pc = "extract"
    /\ file_idx < Len(listing)
    /\ LET doc == listing[file_idx + 1]
       IN  IF IsPdfName(doc.name)
           THEN \/ /\ texts' = TextsAfterSuccess(texts, doc)
                   /\ console' = console \o << <<"processing", doc.name>>,
                                               <<"done", doc.name>> >>
                \/ \E failAt \in FailurePoints(doc) :
                   /\ texts' = TextsAfterFailure(texts, doc, failAt)
                   /\ console' = console \o << <<"processing", doc.name>>,
                                               <<"error", doc.name>> >>
           ELSE UNCHANGED <<texts, console>>
    /\ file_idx' = file_idx + 1
    /\ UNCHANGED <<pc, dir_exists, listing, prior_file, out_dir, out_file,
                   combined_text, chunk_size, text_chunks, chunk_idx, calls,
                   all_keywords, unique_keywords_dict, final_terms>>

\* main.py:59-60: the loop is over, extract_texts_from_pdfs returns
ExtractEnd ==
    /\ pc = "extract"
    /\ file_idx = Len(listing)
    /\ pc' = "check"
    /\ UNCHANGED <<dir_exists, listing, prior_file, out_dir, out_file, file_idx,
                   texts, console, combined_text, chunk_size, text_chunks,
                   chunk_idx, calls, all_keywords, unique_keywords_dict, final_terms>>

\* main.py:79-80: no text, the script ends
NoTextExit ==
    /\ pc = "check"
    /\ texts = <<>>
    /\ console' = Append(console, <<"no_text">>)
    /\ pc' = "done"
    /\ UNCHANGED <<dir_exists, listing, prior_file, out_dir, out_file, file_idx,
                   texts, combined_text, chunk_size, text_chunks, chunk_idx, calls,
                   all_keywords, unique_keywords_dict, final_terms>>

\* main.py:82-83
Combine ==
    /\ pc = "check"
    /\ texts # <<>>
    /\ combined_text' = Join(<<" ">>, texts)
    /\ console' = Append(console, <<"extracted">>)
    /\ pc' = "chunk"
    /\ UNCHANGED <<dir_exists, listing, prior_file, out_dir, out_file, file_idx,
                   texts, chunk_size, text_chunks, chunk_idx, calls,
                   all_keywords, unique_keywords_dict, final_terms>>

\* main.py:86-93: the model is loaded and the text is cut into chunks
Chunk ==
    /\ pc = "chunk"
    /\ all_keywords' = <<>>
    /\ text_chunks' = split_text_into_chunks(combined_text, chunk_size)
    /\ console' = console \o << <<"model_loaded">>, <<"extracting">> >>
    /\ pc' = "keywords"
    /\ UNCHANGED <<dir_exists, listing, prior_file, out_dir, out_file, file_idx,
                   texts, combined_text, chunk_size, chunk_idx, calls,
                   unique_keywords_dict, final_terms>>

\* main.py:95-110: one iteration of the loop over text_chunks
ExtractKeywords ==
    /\ pc = "keywords"
    /\ chunk_idx < Len(text_chunks)
    /\ \E outcome \in ExtractorOutcomes :
        /\ calls' = Append(calls, [chunk |-> text_chunks[chunk_idx + 1],
                                   outcome |-> outcome])
        /\ IF outcome.raised
           THEN /\ all_keywords' = KeywordsAfterFailure(all_keywords)
                /\ console' = console \o << <<"chunk", chunk_idx + 1>>,
                                            <<"chunk_error", chunk_idx + 1>> >>
           ELSE /\ all_keywords' = KeywordsAfterSuccess(all_keywords, outcome.keywords)
                /\ console' = Append(console, <<"chunk", chunk_idx + 1>>)
    /\ chunk_idx' = chunk_idx + 1
    /\ UNCHANGED <<pc, dir_exists, listing, prior_file, out_dir, out_file,
                   file_idx, texts, combined_text, chunk_size, text_chunks,
                   unique_keywords_dict, final_terms>>

ChunksDone_early ==
    /\ pc = "keywords"
    /\ chunk_idx >= 1
    /\ calls[chunk_idx].outcome.raised
    /\ console' = Append(console, <<"chunks_done">>)
    /\ pc' = "aggregate"
    /\ UNCHANGED <<dir_exists, listing, prior_file, out_dir, out_file, file_idx,
                   texts, combined_text, chunk_size, text_chunks, chunk_idx, calls,
                   all_keywords, unique_keywords_dict, final_terms>>

\* main.py:112: the loop over text_chunks is over
ChunksDone ==
    /\ pc = "keywords"
    /\ chunk_idx = Len(text_chunks)
    /\ console' = Append(console, <<"chunks_done">>)
    /\ pc' = "aggregate"
    /\ UNCHANGED <<dir_exists, listing, prior_file, out_dir, out_file, file_idx,
                   texts, combined_text, chunk_size, text_chunks, chunk_idx, calls,
                   all_keywords, unique_keywords_dict, final_terms>>

\* main.py:116-124: step 5, the dictionary and its sorted list of items
Aggregate ==
    /\ pc = "aggregate"
    /\ unique_keywords_dict' = Deduplicate(all_keywords)
    /\ final_terms' = SortByScoreDescending(unique_keywords_dict')
    /\ pc' = "inject"
    /\ UNCHANGED <<dir_exists, listing, prior_file, out_dir, out_file, file_idx,
                   texts, console, combined_text, chunk_size, text_chunks,
                   chunk_idx, calls, all_keywords>>

\* main.py:127-134: step 6
InjectEssentials ==
    /\ pc = "inject"
    /\ final_terms' = InjectEssentialTerms(final_terms)
    /\ console' = Append(console, <<"injecting">>)
    /\ pc' = "sort"
    /\ UNCHANGED <<dir_exists, listing, prior_file, out_dir, out_file, file_idx,
                   texts, combined_text, chunk_size, text_chunks, chunk_idx, calls,
                   all_keywords, unique_keywords_dict>>

\* main.py:137
SortFinal ==
    /\ pc = "sort"
    /\ final_terms' = SortByScoreDescending(final_terms)
    /\ pc' = "write"
    /\ UNCHANGED <<dir_exists, listing, prior_file, out_dir, out_file, file_idx,
                   texts, console, combined_text, chunk_size, text_chunks,
                   chunk_idx, calls, all_keywords, unique_keywords_dict>>

\* main.py:140-150: step 7, the file is opened for writing and filled
WriteFile ==
    /\ pc = "write"
    /\ out_file' = FileContent(final_terms)
    /\ console' = console \o << <<"writing">>, <<"saved">> >>
    /\ pc' = "done"
    /\ UNCHANGED <<dir_exists, listing, prior_file, out_dir, file_idx, texts,
                   combined_text, chunk_size, text_chunks, chunk_idx, calls,
                   all_keywords, unique_keywords_dict, final_terms>>

Next ==
    \/ MakeOutputDir
    \/ ExtractBegin
    \/ ExtractFile
    \/ ExtractEnd
    \/ NoTextExit
    \/ Combine
    \/ Chunk
    \/ ExtractKeywords
    \/ ChunksDone
    \/ Aggregate
    \/ InjectEssentials
    \/ SortFinal
    \/ WriteFile

Spec == Init /\ [][Next]_vars

\* The script is one sequential process: a step that can be taken is taken.
FairSpec == Spec /\ WF_vars(Next)

-----------------------------------------------------------------------------
(* The chunker alone, over every text and chunk size within the bounds.    *)

Alphabet == {"a", "b"}

TextsUpTo(n) == UNION {[1..k -> Alphabet] : k \in 0..n}

InitChunker ==
    /\ pc = "chunker"
    /\ combined_text \in TextsUpTo(MaxTextLen)
    /\ chunk_size \in 1..MaxChunkSize
    /\ text_chunks = <<>>
    /\ dir_exists = FALSE
    /\ listing = <<>>
    /\ prior_file = NoFile
    /\ out_dir = FALSE
    /\ out_file = NoFile
    /\ file_idx = 0
    /\ texts = <<>>
    /\ console = <<>>
    /\ chunk_idx = 0
    /\ calls = <<>>
    /\ all_keywords = <<>>
    /\ unique_keywords_dict = <<>>
    /\ final_terms = <<>>

\* list(split_text_into_chunks(text, chunk_size))
RunChunker ==
    /\ pc = "chunker"
    /\ text_chunks' = split_text_into_chunks(combined_text, chunk_size)
    /\ pc' = "chunked"
    /\ UNCHANGED <<dir_exists, listing, prior_file, out_dir, out_file, file_idx,
                   texts, console, combined_text, chunk_size, chunk_idx, calls,
                   all_keywords, unique_keywords_dict, final_terms>>

NextChunker == RunChunker

SpecChunker == InitChunker /\ [][NextChunker]_vars

-----------------------------------------------------------------------------
(* Properties                                                              *)

Max(S) == CHOOSE x \in S : \A y \in S : y <= x

Min(a, b) == IF a <= b THEN a ELSE b

\* the positions of the script after step 5 has built the dictionary
AfterAggregate == {"inject", "sort", "write", "done"}

\* the positions of the script after step 6 has added the essential terms
AfterInject == {"sort", "write", "done"}

\* step 6 has run (a run that found no text ends without it)
Injected == pc \in AfterInject /\ texts # <<>>

\* the run wrote the output file
Written == pc = "done" /\ texts # <<>>

DictKeys == {unique_keywords_dict[i][1] : i \in DOMAIN unique_keywords_dict}

\* the scores with which a phrase arrived
ScoresOf(term) ==
    {all_keywords[i][2] : i \in {j \in DOMAIN all_keywords : all_keywords[j][1] = term}}

\* the words of a phrase: its maximal runs of characters between spaces
WordsOf(term) ==
    {SubSeq(term, a, b) : <<a, b>> \in
        {<<a, b>> \in (1..(Len(term) + 1)) \X (0..Len(term)) :
            /\ a <= b + 1
            /\ \A k \in a..b : term[k] # " "
            /\ (a = 1 \/ term[a - 1] = " ")
            /\ (b = Len(term) \/ term[b + 1] = " ")}}

FillerWords == {BAD_WORDS[k] : k \in DOMAIN BAD_WORDS}

(* C1: for every text s and chunk size c >= 1 the chunks of                *)
(* split_text_into_chunks(s, c) concatenate, in order, back to s; every    *)
(* chunk has at most c characters and every chunk but the last exactly c;  *)
(* and the number of chunks is ceil(len(s) / c), 0 for the empty text.     *)
C1_ChunksCoverText ==
    pc = "chunked" =>
        LET n == Len(text_chunks)
        IN  /\ Flatten(text_chunks) = combined_text
            /\ \A k \in 1..n : Len(text_chunks[k]) <= chunk_size
            /\ \A k \in 1..(n - 1) : Len(text_chunks[k]) = chunk_size
            /\ n * chunk_size >= Len(combined_text)
            /\ (n = 0 <=> combined_text = <<>>)
            /\ (n >= 1 => (n - 1) * chunk_size < Len(combined_text))

C1_Witness ==
    /\ pc = "chunked"
    /\ Len(text_chunks) >= 2
    /\ Len(text_chunks[Len(text_chunks)]) < chunk_size
    /\ chunk_size >= 2

(* C2: after the aggregation loop the dictionary holds exactly one entry   *)
(* for each distinct phrase that survives the filter, and its score is the *)
(* largest score among all occurrences of the phrase, whatever the order   *)
(* in which the occurrences arrived.                                       *)
C2_DedupKeepsMaximum ==
    pc \in AfterAggregate =>
        /\ DictKeys = {all_keywords[i][1] : i \in
                          {j \in DOMAIN all_keywords : ~HasBadWord(all_keywords[j][1])}}
        /\ \A i, j \in DOMAIN unique_keywords_dict :
              i # j => unique_keywords_dict[i][1] # unique_keywords_dict[j][1]
        /\ \A i \in DOMAIN unique_keywords_dict :
              unique_keywords_dict[i][2] = Max(ScoresOf(unique_keywords_dict[i][1]))

\* a phrase arrived three times, its largest score neither first nor last
C2_Witness ==
    /\ pc = "inject"
    /\ \E i, j, k \in DOMAIN all_keywords :
          /\ i < j /\ j < k
          /\ all_keywords[i][1] = all_keywords[j][1]
          /\ all_keywords[j][1] = all_keywords[k][1]
          /\ all_keywords[i][2] < all_keywords[j][2]
          /\ all_keywords[k][2] < all_keywords[j][2]
          /\ all_keywords[i][1] \in DictKeys

(* C5: an extracted phrase is left out of the dictionary, whatever its     *)
(* score, if and only if one of its space-delimited words (first, middle   *)
(* or last) is one of the filler words of, the, and, is, for, in; a phrase *)
(* that holds a filler word only inside a longer word is kept.             *)
C5_FilterWholeWords ==
    pc \in AfterAggregate =>
        \A i \in DOMAIN all_keywords :
            (all_keywords[i][1] \notin DictKeys)
                <=> (WordsOf(all_keywords[i][1]) \cap FillerWords # {})

C5_Witness ==
    /\ pc = "inject"
    /\ {OfCourse, LawOfOhm, PlugIn, InputSignal}
          \subseteq {all_keywords[i][1] : i \in DOMAIN all_keywords}
    /\ InputSignal \in DictKeys
    /\ {OfCourse, LawOfOhm, PlugIn} \cap DictKeys = {}

\* the term lines of the output file
TermLines == SelectSeq(out_file.lines, LAMBDA l : l.kind = "term")

\* the essential terms that step 6 appended: those no dictionary key matches
InjectedTerms ==
    {essential_terms[k] : k \in
        {m \in DOMAIN essential_terms :
            \A t \in DictKeys : lower(t) # lower(essential_terms[m])}}

(* C6: the term lines written to the output file are in non-increasing     *)
(* score order and there are exactly min(50, U) of them, U the number of   *)
(* entries of the final term list (the de-duplicated extracted terms plus  *)
(* the injected essential terms); they are the first min(50, U) entries of *)
(* the sorted final list.                                                  *)
C6_SortedTopFifty ==
    Written =>
        LET U == Len(final_terms)
            n == Min(50, U)
        IN  /\ U = Len(unique_keywords_dict) + Cardinality(InjectedTerms)
            /\ \A i \in 1..(U - 1) : final_terms[i][2] >= final_terms[i + 1][2]
            /\ Len(TermLines) = n
            /\ \A i \in 1..(Len(TermLines) - 1) : TermLines[i].conf >= TermLines[i + 1].conf
            /\ \A i \in 1..n :
                  /\ i <= Len(TermLines)
                  /\ TermLines[i].term = final_terms[i][1]
                  /\ TermLines[i].conf * 10 <= final_terms[i][2] + 5
                  /\ TermLines[i].conf * 10 > final_terms[i][2] - 5

\* more than 50 entries, of several scores, so that the file is a strict prefix
C6_Witness ==
    /\ Written
    /\ Len(final_terms) > 50
    /\ Len(TermLines) = 50
    /\ final_terms[1][2] > final_terms[50][2]
    /\ final_terms[50][2] > final_terms[Len(final_terms)][2]

\* position of the first occurrence of an extracted phrase in all_keywords
FirstSeen(term) ==
    CHOOSE i \in DOMAIN all_keywords :
        /\ all_keywords[i][1] = term
        /\ \A j \in 1..(i - 1) : all_keywords[j][1] # term

\* position of an injected term in the curated list
EssentialIndex(term) ==
    CHOOSE k \in DOMAIN essential_terms : essential_terms[k] = term

\* entries of equal score stand in first-seen order: extracted phrases by their
\* first occurrence, then the injected terms in the order of the curated list
TiesInFirstSeenOrder(items) ==
    \A i, j \in DOMAIN items :
        (i < j /\ items[i][2] = items[j][2]) =>
            LET a == items[i][1]
                b == items[j][1]
            IN  IF a \in DictKeys
                THEN b \in DictKeys => FirstSeen(a) < FirstSeen(b)
                ELSE b \notin DictKeys /\ EssentialIndex(a) < EssentialIndex(b)

(* C10: among entries of the final term list that have equal scores the    *)
(* order is first-seen order: extracted phrases in the order of their      *)
(* first occurrence in the accumulated keywords, even when a later         *)
(* occurrence raised the score, and injected essential terms after all     *)
(* extracted phrases of the same score, in the order of the curated list;  *)
(* this holds after the first sort and after the second.                   *)
C10_TiesKeepFirstSeenOrder ==
    pc \in {"inject", "write", "done"} => TiesInFirstSeenOrder(final_terms)

\* after the second sort: a phrase whose score was raised to 0.99 by a later
\* occurrence stands before a phrase first seen later with 0.99, and an extracted
\* phrase of score 0.95 ties with the injected terms
C10_Witness ==
    /\ pc = "write"
    /\ \E i, j \in DOMAIN final_terms :
          /\ i < j
          /\ final_terms[i] = <<Gen(1), 990>>
          /\ final_terms[j] = <<Gen(3), 990>>
          /\ all_keywords[FirstSeen(Gen(1))][2] < 990
          /\ \E k \in DOMAIN all_keywords :
                /\ all_keywords[k] = <<Gen(1), 990>>
                /\ FirstSeen(Gen(3)) < k
    /\ \E i, j \in DOMAIN final_terms :
          /\ final_terms[i] = <<Gen(2), 950>>
          /\ final_terms[j][2] = 950
          /\ final_terms[j][1] \in InjectedTerms
    /\ Cardinality(InjectedTerms) >= 2

\* the console holds the message msg
Printed(msg) == \E i \in DOMAIN console : console[i] = msg

\* the names of the files whose processing the console announces, in order
ProcessedNames ==
    LET started == SelectSeq(console, LAMBDA m : m[1] = "processing")
    IN  [i \in DOMAIN started |-> started[i][2]]

\* what the first n files of the listing contribute when each is taken alone:
\* the full text of a PDF that did not fail, nothing for any other file
RECURSIVE ExpectedTexts(_)
ExpectedTexts(n) ==
    IF n = 0 THEN <<>>
    ELSE LET doc == listing[n]
         IN  IF IsPdfName(doc.name) /\ ~Printed(<<"error", doc.name>>)
             THEN Append(ExpectedTexts(n - 1), FullText(doc))
             ELSE ExpectedTexts(n - 1)

RECURSIVE PdfNames(_)
PdfNames(n) ==
    IF n = 0 THEN <<>>
    ELSE IF IsPdfName(listing[n].name)
         THEN Append(PdfNames(n - 1), listing[n].name)
         ELSE PdfNames(n - 1)

\* what the first n calls contribute: the keywords of a call that returned
RECURSIVE ExpectedKeywords(_)
ExpectedKeywords(n) ==
    IF n = 0 THEN <<>>
    ELSE IF calls[n].outcome.raised
         THEN ExpectedKeywords(n - 1)
         ELSE ExpectedKeywords(n - 1) \o calls[n].outcome.keywords

C3_EssentialTermsWritten ==
    Written =>
        \A k \in DOMAIN essential_terms :
            LET e == essential_terms[k]
                same(items) == {i \in DOMAIN items : lower(items[i][1]) = lower(e)}
            IN  IF same(all_keywords) = {}
                THEN \E i \in DOMAIN TermLines :
                        TermLines[i].term = e /\ TermLines[i].conf = 95
                ELSE Cardinality(same(final_terms))
                        = Cardinality(same(unique_keywords_dict))

\* the scores observed for a phrase, compared case-insensitively, the curated
\* list counting as one observation with score 0.95
ObservedScores(term) ==
    {all_keywords[i][2] : i \in
        {j \in DOMAIN all_keywords : lower(all_keywords[j][1]) = lower(term)}}
    \cup (IF \E k \in DOMAIN essential_terms : lower(essential_terms[k]) = lower(term)
          THEN {950} ELSE {})

(* C4 as stated: after aggregation and injection the term collection has   *)
(* at most one entry per phrase compared case-insensitively, and the score *)
(* of a phrase is the largest score observed for it across all sources,    *)
(* the essential-terms list counting as an observation with score 0.95.    *)
C4_CaseInsensitiveMaximum ==
    Injected =>
        /\ \A i, j \in DOMAIN final_terms :
              i # j => lower(final_terms[i][1]) # lower(final_terms[j][1])
        /\ \A i \in DOMAIN final_terms :
              final_terms[i][2] = Max(ObservedScores(final_terms[i][1]))

(* C4, amended: after aggregation and injection the term collection has at *)
(* most one entry per phrase compared exactly (case-sensitively); the      *)
(* score of an extracted phrase is the largest score among the occurrences *)
(* of that exact phrase; an essential term is added, with score 0.95, only *)
(* when no extracted entry equals it case-insensitively, and otherwise the *)
(* extracted entries keep their extracted scores.                          *)
C4_ExactKeyMaximum ==
    Injected =>
        /\ \A i, j \in DOMAIN final_terms :
              i # j => final_terms[i][1] # final_terms[j][1]
        /\ {final_terms[i][1] : i \in DOMAIN final_terms} = DictKeys \cup InjectedTerms
        /\ \A i \in DOMAIN final_terms :
              IF final_terms[i][1] \in DictKeys
              THEN final_terms[i][2] = Max(ScoresOf(final_terms[i][1]))
              ELSE final_terms[i][2] = 950
        /\ \A k \in DOMAIN essential_terms :
              (\E t \in DictKeys : lower(t) = lower(essential_terms[k]))
                  => \A i \in DOMAIN final_terms :
                        lower(final_terms[i][1]) = lower(essential_terms[k])
                            => final_terms[i][1] \in DictKeys

\* two case forms of an essential term were extracted, both below 0.95, and
\* another essential term was injected
C4_Witness ==
    /\ pc = "sort"
    /\ \E i, j \in DOMAIN final_terms :
          /\ final_terms[i] = <<CircuitBreakerTitle, 700>>
          /\ final_terms[j] = <<CircuitBreakerLower, 600>>
    /\ \E i \in DOMAIN final_terms : final_terms[i] = <<essential_terms[1], 950>>

\* the PDFs that were parsed to their end
ParsedDocs ==
    {listing[i] : i \in {j \in 1..file_idx :
        IsPdfName(listing[j].name) /\ ~Printed(<<"error", listing[j].name>>)}}

\* there is no extractable text: no directory, no PDF, no PDF that parses, or
\* only PDFs whose pages all have empty text
NoExtractableText ==
    \A doc \in ParsedDocs :
        \A k \in (StartPage(doc) + 1)..Len(doc.pages) : doc.pages[k] = <<>>

(* C7: whenever there is no extractable text at all (the input directory   *)
(* is missing, is empty, holds no .pdf file, every PDF fails to parse, or  *)
(* every parsed PDF yields only empty page text) the run prints the "no    *)
(* text found" message and ends without creating or overwriting the        *)
(* output file.                                                            *)
C7_NoTextNoOutput ==
    (pc = "done" /\ NoExtractableText) =>
        /\ Printed(<<"no_text">>)
        /\ out_file = prior_file

\* The stages in their order: Init, Extract, Combine, Chunk, Extract-Keywords,
\* Aggregate, Inject-Essentials, Sort, Truncate and Write (one step of the code:
\* the slice is taken in the write loop), Done.  The stage of a position is the
\* one its next step carries out.
StageRank(p) ==
    CASE p = "start" -> 0
      [] p \in {"extract_begin", "extract"} -> 1
      [] p = "check" -> 2
      [] p = "chunk" -> 3
      [] p = "keywords" -> 4
      [] p = "aggregate" -> 5
      [] p = "inject" -> 6
      [] p = "sort" -> 7
      [] p = "write" -> 8
      [] p = "done" -> 9

StageRankOf(p) == IF p = "chunker" \/ p = "chunked" THEN 0 ELSE StageRank(p)

\* a step stays in its stage or moves to the next one
LinearStep ==
    StageRankOf(pc') = StageRankOf(pc) \/ StageRankOf(pc') = StageRankOf(pc) + 1

\* the keyword stage takes the chunks one at a time, in order, each once, and
\* is left only when every chunk has been attempted
ChunkByChunk ==
    /\ (pc = "keywords" /\ pc' = "keywords") =>
          /\ chunk_idx < Len(text_chunks)
          /\ chunk_idx' = chunk_idx + 1
          /\ Len(calls') = Len(calls) + 1
          /\ SubSeq(calls', 1, Len(calls)) = calls
          /\ calls'[Len(calls')].chunk = text_chunks[chunk_idx + 1]
    /\ (pc = "keywords" /\ pc' # "keywords") =>
          /\ chunk_idx = Len(text_chunks)
          /\ Len(calls) = Len(text_chunks)

\* the output file changes in one step only, the last, after every chunk
WrittenOnceAtTheEnd ==
    /\ out_file' # out_file =>
          /\ pc = "write" /\ pc' = "done"
          /\ Len(calls) = Len(text_chunks)
          /\ Len(text_chunks) >= 1
    /\ pc # "done"

(* C9 as stated: every run whose only failures are caught ones goes        *)
(* through the stages in the one linear order, none skipped or taken out   *)
(* of order.                                                               *)
C9_LinearOrder == [][LinearStep]_vars

(* C9, amended: a run in which extraction yields at least one text goes    *)
(* through the stages in the one linear order Init, Extract, Combine,      *)
(* Chunk, Extract-Keywords (once per chunk, each chunk finished before the *)
(* next begins), Aggregate, Inject-Essentials, Sort, Truncate, Write,      *)
(* Done, none skipped or out of order; a run in which extraction yields no *)
(* text goes from Extract straight to Done and writes nothing; the output  *)
(* file is written at most once, only after every chunk has been           *)
(* attempted; and every run eventually reaches Done, after which no step   *)
(* is taken.                                                               *)
C9_LinearUnlessNoText ==
    /\ [][/\ pc = "check" /\ texts = <<>> =>
                pc' = "done" /\ out_file' = out_file
          /\ ~(pc = "check" /\ texts = <<>>) => LinearStep
          /\ ChunkByChunk
          /\ WrittenOnceAtTheEnd]_vars
    /\ <>(pc = "done")

\* a run of two chunks reached Done with the file written
C9_Witness ==
    /\ pc = "done"
    /\ out_file # prior_file
    /\ Len(text_chunks) = 2
    /\ Len(calls) = 2
    /\ Printed(<<"chunk_error", 1>>)

====
